---- MODULE Spec2Model ----
(***************************************************************************)
(* Model of the snake game engine of src/src/main.rs: the State struct,  *)
(* the score history of SnakeApp, and the per-frame callback             *)
(* SnakeApp::update with the methods it calls (up, right, down, left,    *)
(* score, lost, update_state).                                           *)
(*                                                                       *)
(* One frame of App::update runs its stages in program order; pc is the  *)
(* position of the callback inside the frame:                            *)
(*   "space"  -> line 108, the Space key                                 *)
(*   "arrows" -> lines 113-122, "wasd" -> 124-133, "vim" -> 135-144      *)
(*   "tick"   -> lines 146-149, the call of update_state when due        *)
(* The inputs of a frame (keys pressed, whether the interval has elapsed,*)
(* the two random draws of the apple placement) are chosen with \E.      *)
(*                                                                       *)
(* Four specifications run the same frames:                              *)
(*   Spec      -> runs of up to MaxTick ticks, MaxGames losses           *)
(*   SpecLong  -> runs of any length, keys read in the first ticks only  *)
(*   SpecFrame -> the first ticks, with the calls of the key groups of   *)
(*                a frame recorded in calls                              *)
(*   SpecLive  -> SpecLong's frames under the fairness of the frame loop *)
(*                and of the tick                                        *)
(***************************************************************************)
EXTENDS Integers, Sequences, FiniteSets

VARIABLES
    paused,           \* State.paused
    direction,        \* State.direction
    next_input,       \* State.next_input : Option<Direction>, <<>> or <<d>>
    snake,            \* State.snake : VecDeque<Pos>, head first
    last_tail_pos,    \* State.last_tail_pos
    board,            \* State.board : the set of cells whose flag is true
    update_interval,  \* State.update_interval, in milliseconds
    last_score,       \* State.last_score : Option<usize>, <<>> or <<n>>
    tick,             \* State.tick
    scores,           \* SnakeApp.scores : Vec<usize>
    pc,               \* position of App::update inside the current frame
    games,            \* history: number of calls of lost() so far
    had,              \* history: the values score() had in the states of this run
    calls             \* history: the call each key group read so far in the
                      \* current frame has made (recorded by SpecFrame)

vars == <<paused, direction, next_input, snake, last_tail_pos, board,
          update_interval, last_score, tick, scores, pc, games, had, calls>>

state_vars == <<paused, direction, next_input, snake, last_tail_pos, board,
                update_interval, last_score, tick>>

----------------------------------------------------------------------------
(* Program constants                                                     *)

START_LENGTH == 3
BOARD_WIDTH == 40
BOARD_HEIGHT == 20
\* scores.truncate(10)
SCORES_KEPT == 10
\* apple_count < 10
APPLE_LIMIT == 10
\* Duration::from_millis((200.0 * (20.0 / (score + 20.0))) as u64)
BASE_MS == 200
DIFFICULTY == 20
\* State::default: update_interval and tick
DEFAULT_INTERVAL_MS == 100
FIRST_TICK == 1
(* Bounds of the model                                                   *)

\* update_state is applied while State.tick <= MaxTick
MaxTick == 4
\* lost() is called at most MaxGames times
MaxGames == 2
\* the random extra apple (gen_bool) is drawn true only below MaxApples apples
MaxApples == 2
\* the random apple cell is drawn within this Manhattan distance of the head
MaxAppleDist == 1
\* the width usize arithmetic wraps at in the model (64 in the build; the
\* integers of the model checker have 32 bits)
UsizeBits == 29

----------------------------------------------------------------------------
(* Option<T>                                                             *)

None == <<>>
Some(x) == <<x>>

(* enum Direction                                                        *)
Direction == {"Up", "Right", "Down", "Left"}

(* struct Pos: <<x, y>>                                                  *)
Pos_new(x, y) == <<x, y>>

Cells == {Pos_new(x, y) : x \in 0..(BOARD_WIDTH - 1), y \in 0..(BOARD_HEIGHT - 1)}

----------------------------------------------------------------------------
(* State::default                                                        *)

default_snake ==
    [i \in 1..START_LENGTH |-> Pos_new(2 + (START_LENGTH - i), 3)]

default_last_tail_pos == Pos_new(1, 3)

\* scores a former process can have saved: lost() leaves them sorted
\* descending, positive and at most SCORES_KEPT long
SavedScores ==
    { <<>>,
      <<3, 2, 2, 1, 1, 1, 1, 1, 1>> }

----------------------------------------------------------------------------
(* Sequence helpers: VecDeque / Vec operations                           *)

\* VecDeque::contains
contains(s, p) == \E i \in 1..Len(s) : s[i] = p

\* mutant of pop_back: two elements are removed
pop_back_two(s) == SubSeq(s, 1, Len(s) - 2)

\* VecDeque::pop_back on a non-empty deque
pop_back(s) == SubSeq(s, 1, Len(s) - 1)

\* VecDeque::push_front
push_front(s, p) == <<p>> \o s

\* VecDeque::back
back(s) == s[Len(s)]

\* Vec::truncate
truncate(s, n) == IF Len(s) > n THEN SubSeq(s, 1, n) ELSE s

\* insertion of one element into a descending sequence, after its equals
RECURSIVE insert_desc(_, _)
insert_desc(s, v) ==
    IF s = <<>> THEN <<v>>
    ELSE IF v > s[1] THEN <<v>> \o s
    ELSE <<s[1]>> \o insert_desc(Tail(s), v)

\* Vec::sort_by(|a, b| b.cmp(a)): stable sort, descending
RECURSIVE sort_desc(_)
sort_desc(s) ==
    IF s = <<>> THEN <<>>
    ELSE insert_desc(sort_desc(SubSeq(s, 1, Len(s) - 1)), s[Len(s)])

----------------------------------------------------------------------------
(* SnakeApp::score, on the snake as it is at the call; usize arithmetic: *)
(* below START_LENGTH the difference wraps to a huge value in a release  *)
(* build (a debug build panics there)                                    *)

score(s) == (Len(s) - START_LENGTH) % (2 ^ UsizeBits)

\* mutant of record_score: the history is not truncated
record_score_untruncated(hist, sc) ==
    IF sc > 0
    THEN sort_desc(Append(hist, sc))
    ELSE hist

\* mutant of record_score: the history is truncated before it is sorted
record_score_drops_new(hist, sc) ==
    IF sc > 0
    THEN sort_desc(truncate(Append(hist, sc), SCORES_KEPT))
    ELSE hist

(* The body of lost() that updates the score history                     *)
record_score(hist, sc) ==
    IF sc > 0
    THEN truncate(sort_desc(Append(hist, sc)), SCORES_KEPT)
    ELSE hist

(* SnakeApp::lost, called with the snake as it is at the call            *)
lost(s) ==
    /\ scores' = record_score(scores, score(s))
    /\ paused' = TRUE
    /\ direction' = "Right"
    /\ next_input' = None
    /\ snake' = default_snake
    /\ last_tail_pos' = default_last_tail_pos
    /\ board' = {}
    /\ update_interval' = DEFAULT_INTERVAL_MS
    /\ tick' = FIRST_TICK
    /\ last_score' = Some(score(s))
    /\ games' = games + 1
    /\ had' = {score(default_snake)}

----------------------------------------------------------------------------
(* SnakeApp::up / right / down / left                                    *)

up ==
    next_input' = IF ~(direction = "Down") THEN Some("Up") ELSE next_input

right ==
    next_input' = IF ~(direction = "Left") THEN Some("Right") ELSE next_input

down ==
    next_input' = IF ~(direction = "Up") THEN Some("Down") ELSE next_input

\* mutant of left: the reversal check is left out
left_unchecked ==
    next_input' = Some("Left")

left ==
    next_input' = IF ~(direction = "Right") THEN Some("Left") ELSE next_input

\* the call one if / else-if chain makes: None, or the direction of the
\* method called
chain_call(keys) ==
    IF "Up" \in keys THEN Some("Up")
    ELSE IF "Right" \in keys THEN Some("Right")
    ELSE IF "Down" \in keys THEN Some("Down")
    ELSE IF "Left" \in keys THEN Some("Left")
    ELSE None

\* mutant of key_chain: the chains of the three groups are one else-if
\* chain, so a group makes no call after an earlier group has made one
key_chain_one_chain(keys) ==
    IF \E i \in 1..Len(calls) : calls[i] # None THEN UNCHANGED next_input
    ELSE IF "Up" \in keys THEN up
    ELSE IF "Right" \in keys THEN right
    ELSE IF "Down" \in keys THEN down
    ELSE IF "Left" \in keys THEN left
    ELSE UNCHANGED next_input

(* One if / else-if chain of App::update over the keys of a binding group; *)
(* keys is the set of directions whose key of the group is pressed       *)
key_chain(keys) ==
    IF "Up" \in keys THEN up
    ELSE IF "Right" \in keys THEN right
    ELSE IF "Down" \in keys THEN down
    ELSE IF "Left" \in keys THEN left
    ELSE UNCHANGED next_input

----------------------------------------------------------------------------
(* Pieces of SnakeApp::update_state                                      *)

\* mutant of commit: the pending direction is not applied
commit_ignores(dir, pending) == dir

\* if let Some(dir) = state.next_input { state.direction = dir; }
commit(dir, pending) == IF pending # None THEN pending[1] ELSE dir

\* mutant of after_commit: the pending direction is taken out of next_input
after_commit_takes(pending) == None

\* next_input after the commit: `if let Some(dir) = state.next_input` copies
\* the direction out and leaves the field as it is
after_commit(pending) == pending

\* mutant of interval: the ratio is inverted
interval_inverted(sc) == (BASE_MS * (sc + DIFFICULTY)) \div DIFFICULTY

\* the new update_interval, in whole milliseconds; 4000 / (score + 20)
\* computed in f32 and truncated equals the integer quotient for the scores
\* a bounded run reaches (the f32 product is exact at the exact quotients)
interval(sc) == (BASE_MS * DIFFICULTY) \div (sc + DIFFICULTY)

\* mutant of new_head: a step to the right moves two cells
new_head_leap(old_head, dir) ==
    CASE dir = "Up"    -> Pos_new(old_head[1], old_head[2] - 1)
      [] dir = "Right" -> Pos_new(old_head[1] + 2, old_head[2])
      [] dir = "Down"  -> Pos_new(old_head[1], old_head[2] + 1)
      [] dir = "Left"  -> Pos_new(old_head[1] - 1, old_head[2])

\* mutant of new_head: Up and Down exchanged
new_head_flipped(old_head, dir) ==
    CASE dir = "Up"    -> Pos_new(old_head[1], old_head[2] + 1)
      [] dir = "Right" -> Pos_new(old_head[1] + 1, old_head[2])
      [] dir = "Down"  -> Pos_new(old_head[1], old_head[2] - 1)
      [] dir = "Left"  -> Pos_new(old_head[1] - 1, old_head[2])

new_head(old_head, dir) ==
    CASE dir = "Up"    -> Pos_new(old_head[1], old_head[2] - 1)
      [] dir = "Right" -> Pos_new(old_head[1] + 1, old_head[2])
      [] dir = "Down"  -> Pos_new(old_head[1], old_head[2] + 1)
      [] dir = "Left"  -> Pos_new(old_head[1] - 1, old_head[2])

\* mutant of in_board: the upper bound of the y range is left out
in_board_no_bottom(p) ==
    /\ 0 <= p[1] /\ p[1] < BOARD_WIDTH
    /\ 0 <= p[2]

\* mutant of in_board: the lower bound of the y range is left out
in_board_no_top(p) ==
    /\ 0 <= p[1] /\ p[1] < BOARD_WIDTH
    /\ p[2] < BOARD_HEIGHT

\* (0..BOARD_WIDTH).contains(&x) && (0..BOARD_HEIGHT).contains(&y)
in_board(p) ==
    /\ 0 <= p[1] /\ p[1] < BOARD_WIDTH
    /\ 0 <= p[2] /\ p[2] < BOARD_HEIGHT

\* mutant of tail_adjust: the tail is kept until after the collision check
tail_adjust_late(s, eaten_apple) == s

\* the tail adjustment: pop_back unless an apple is eaten
tail_adjust(s, eaten_apple) == IF eaten_apple THEN s ELSE pop_back(s)

\* mutant of eat: the whole board is cleared
eat_all(b, p) == {}

\* mutant of eat: the eaten apple stays on the board
eat_keeps(b, p) == b

\* the board after the apple check
eat(b, p) == b \ {p}

\* mutant of collides: the self-collision check is left out
collides_never(s, p) == FALSE

\* if state.snake.contains(&new_head) { lost }
collides(s, p) == contains(s, p)

\* a candidate cell of the apple placement: no apple on it, not in the snake
is_option(b, s, p) == p \notin b /\ ~contains(s, p)

\* the candidate cells of the apple placement
options(b, s) == {p \in Cells : is_option(b, s, p)}

dist(p, q) ==
    (IF p[1] >= q[1] THEN p[1] - q[1] ELSE q[1] - p[1])
    + (IF p[2] >= q[2] THEN p[2] - q[2] ELSE q[2] - p[2])

\* the cells within Manhattan distance d of p
around(p, d) ==
    {q \in {Pos_new(p[1] + dx, p[2] + dy) : dx \in (0 - d)..d, dy \in (0 - d)..d} :
        in_board(q) /\ dist(q, p) <= d}

\* the cells options.choose(rng) is drawn from in the model: the candidates
\* within MaxAppleDist of the head, or the nearest candidates when there are
\* none that close
drawn(b, s, head) ==
    LET near == {p \in around(head, MaxAppleDist) : is_option(b, s, p)}
    IN  IF near # {} THEN near
        ELSE {p \in options(b, s) :
                \A q \in options(b, s) : dist(p, head) <= dist(q, head)}

\* mutant of will_place: the limit of 10 apples is left out
will_place_uncapped(b, gen_bool) ==
    Cardinality(b) = 0 \/ gen_bool

\* apple_count == 0 || apple_count < 10 && rng.gen_bool(..); gen_bool is the
\* Bernoulli draw
will_place(b, gen_bool) ==
    Cardinality(b) = 0 \/ (Cardinality(b) < APPLE_LIMIT /\ gen_bool)

\* the board after the apple placement; apple is the drawn candidate (None
\* when there is no candidate)
place_apple(b, gen_bool, apple) ==
    IF will_place(b, gen_bool)
    THEN (IF apple # None THEN b \cup {apple[1]} ELSE b)
    ELSE b

\* the first element of options from cell (x, y) on: the loops of the
\* placement push the candidates row by row, each row from x = 0
RECURSIVE scan_from(_, _, _, _)
scan_from(b, s, x, y) ==
    IF y >= BOARD_HEIGHT THEN {}
    ELSE IF x >= BOARD_WIDTH THEN scan_from(b, s, 0, y + 1)
    ELSE IF is_option(b, s, Pos_new(x, y)) THEN {Pos_new(x, y)}
    ELSE scan_from(b, s, x + 1, y)

\* the first element of options, if there is one
scan_first(b, s) == scan_from(b, s, 0, 0)

\* the cells options.choose(rng) is drawn from in a long run: the first
\* candidate, or the candidate the head reaches next when it goes straight
drawn_long(b, s, head) ==
    LET ahead == Pos_new(2 * head[1] - s[2][1], 2 * head[2] - s[2][2])
    IN  scan_first(b, s)
          \cup (IF in_board(ahead) /\ is_option(b, s, ahead) THEN {ahead} ELSE {})

\* the cells options.choose(rng) is drawn from, in a long run or not
draw(long_run, b, s, head) ==
    IF long_run THEN drawn_long(b, s, head) ELSE drawn(b, s, head)

(* The body of SnakeApp::update_state. The random extra apple (gen_bool) *)
(* is drawn true only below apple_bound apples, and options.choose draws *)
(* the apple from draw(long_run, board, snake, head)                     *)
tick_step(apple_bound, long_run) ==
    LET dir == commit(direction, next_input)
        head == new_head(snake[1], dir)
    IN  IF ~in_board(head)
        THEN lost(snake)
        ELSE LET eaten_apple == head \in board
                 board1 == IF eaten_apple THEN eat(board, head) ELSE board
                 snake1 == tail_adjust(snake, eaten_apple)
             IN  IF collides(snake1, head)
                 THEN lost(snake1)
                 ELSE LET snake2 == push_front(snake1, head)
                          opts == draw(long_run, board1, snake2, head)
                      IN  /\ direction' = dir
                          /\ update_interval' = interval(score(snake))
                          /\ last_tail_pos' = back(snake)
                          /\ snake' = snake2
                          /\ \E gen_bool \in BOOLEAN :
                               /\ gen_bool => Cardinality(board1) < apple_bound
                               /\ IF will_place(board1, gen_bool)
                                  THEN \E apple \in
                                         IF opts = {} THEN {None}
                                         ELSE {Some(p) : p \in opts} :
                                         board' = place_apple(board1, gen_bool, apple)
                                  ELSE board' = board1
                          /\ next_input' = after_commit(next_input)
                          /\ tick' = tick + 1
                          /\ had' = had \cup {score(snake2)}
                          /\ UNCHANGED <<paused, last_score, scores, games>>

(* SnakeApp::update_state, called from the tick stage of a frame         *)
update_state ==
    /\ pc = "tick"
    /\ tick <= MaxTick
    /\ games < MaxGames
    /\ pc' = "space"
    /\ tick_step(MaxApples, FALSE)
    /\ UNCHANGED calls

----------------------------------------------------------------------------
(* The state after main() has built SnakeApp: the saved scores, or the   *)
(* default, and State::default                                           *)

Init ==
    /\ paused = TRUE
    /\ direction = "Right"
    /\ next_input = None
    /\ snake = default_snake
    /\ last_tail_pos = default_last_tail_pos
    /\ board = {}
    /\ update_interval = DEFAULT_INTERVAL_MS
    /\ last_score = None
    /\ tick = FIRST_TICK
    /\ scores \in SavedScores
    /\ pc = "space"
    /\ games = 0
    /\ had = {score(default_snake)}
    /\ calls = <<>>

----------------------------------------------------------------------------
(* The stages of one frame of App::update                                *)

\* mutant of key_space: the rest of the frame runs while paused too
key_space_falls_through ==
    /\ pc = "space"
    /\ \E pressed \in BOOLEAN :
         /\ paused' = IF pressed THEN ~paused ELSE paused
         /\ pc' = "arrows"
    /\ UNCHANGED <<direction, next_input, snake, last_tail_pos, board,
                   update_interval, last_score, tick, scores, games, had,
                   calls>>

\* mutant of key_space: the Space key also drops the pending direction
key_space_clears ==
    /\ pc = "space"
    /\ \E pressed \in BOOLEAN :
         /\ paused' = IF pressed THEN ~paused ELSE paused
         /\ next_input' = IF pressed THEN None ELSE next_input
         /\ pc' = IF paused' THEN "space" ELSE "arrows"
    /\ UNCHANGED <<direction, snake, last_tail_pos, board,
                   update_interval, last_score, tick, scores, games, had,
                   calls>>

\* if key_pressed(Space) { paused = !paused }; the rest of the frame is
\* skipped while paused
key_space ==
    /\ pc = "space"
    /\ \E pressed \in BOOLEAN :
         /\ paused' = IF pressed THEN ~paused ELSE paused
         /\ pc' = IF paused' THEN "space" ELSE "arrows"
    /\ UNCHANGED <<direction, next_input, snake, last_tail_pos, board,
                   update_interval, last_score, tick, scores, games, had,
                   calls>>

key_stage(at, then) ==
    /\ pc = at
    /\ pc' = then
    /\ \E keys \in SUBSET Direction : key_chain(keys)
    /\ UNCHANGED <<paused, direction, snake, last_tail_pos, board,
                   update_interval, last_score, tick, scores, games, had,
                   calls>>

arrow_keys == key_stage("arrows", "wasd")

wasd_keys == key_stage("wasd", "vim")

vim_keys == key_stage("vim", "tick")

\* diff < update_interval: no tick in this frame
not_due ==
    /\ pc = "tick"
    /\ pc' = "space"
    /\ UNCHANGED <<state_vars, scores, games, had, calls>>

Next ==
    \/ key_space
    \/ arrow_keys
    \/ wasd_keys
    \/ vim_keys
    \/ not_due
    \/ update_state

Spec == Init /\ [][Next]_vars

----------------------------------------------------------------------------
(* Long runs: the frames of App::update with the direction keys read     *)
(* only in the first ticks of a run, and update_state applied until the  *)
(* run is lost                                                           *)

\* direction keys are pressed only while State.tick <= MaxKeyTick
MaxKeyTick == 1
\* the game is not resumed after MaxLongGames calls of lost()
MaxLongGames == 1
\* the random extra apple (gen_bool) is drawn true only below MaxLongApples
\* apples
MaxLongApples == 11

\* the Space key; the game is not resumed after MaxLongGames losses
long_space ==
    /\ key_space
    /\ games >= MaxLongGames => paused'

\* a key stage of a frame
long_key_stage(at, then) ==
    /\ pc = at
    /\ pc' = then
    /\ \E keys \in (IF tick <= MaxKeyTick THEN SUBSET Direction ELSE {{}}) :
         key_chain(keys)
    /\ UNCHANGED <<paused, direction, snake, last_tail_pos, board,
                   update_interval, last_score, tick, scores, games, had,
                   calls>>

long_arrow_keys == long_key_stage("arrows", "wasd")

long_wasd_keys == long_key_stage("wasd", "vim")

long_vim_keys == long_key_stage("vim", "tick")

\* SnakeApp::update_state, called from the tick stage of a frame
long_update_state ==
    /\ pc = "tick"
    /\ pc' = "space"
    /\ tick_step(MaxLongApples, TRUE)
    /\ UNCHANGED calls

NextLong ==
    \/ long_space
    \/ long_arrow_keys
    \/ long_wasd_keys
    \/ long_vim_keys
    \/ not_due
    \/ long_update_state

SpecLong == Init /\ [][NextLong]_vars

----------------------------------------------------------------------------
(* Long runs under the scheduling of the frames, started without saved  *)
(* scores: an apple is placed only when the board has none               *)

\* the random extra apple (gen_bool) is drawn true only below MaxLiveApples
\* apples
MaxLiveApples == 1

\* SnakeApp::update_state, called from the tick stage of a frame
live_update_state ==
    /\ pc = "tick"
    /\ pc' = "space"
    /\ tick_step(MaxLiveApples, TRUE)
    /\ UNCHANGED calls

\* the state after main() has found no saved SnakeApp (unwrap_or_default)
InitLive == Init /\ scores = <<>>

NextLive ==
    \/ long_space
    \/ long_arrow_keys
    \/ long_wasd_keys
    \/ long_vim_keys
    \/ not_due
    \/ live_update_state

\* a frame follows a frame (ctx.request_repaint() at line 101), and the
\* time since last_update grows from frame to frame until the tick is due
\* (lines 103-106, 146-148)
SpecLive ==
    /\ InitLive
    /\ [][NextLive]_vars
    /\ WF_vars(NextLive)
    /\ SF_vars(live_update_state)

----------------------------------------------------------------------------
(* Frames with the calls of the key groups recorded: the first ticks of  *)
(* the first run                                                         *)

\* update_state is applied while State.tick <= MaxFrameTick
MaxFrameTick == 2

\* a key stage of a frame; the call of the group is appended to calls
frame_key_stage(at, then) ==
    /\ pc = at
    /\ pc' = then
    /\ \E keys \in SUBSET Direction :
         /\ key_chain(keys)
         /\ calls' = Append(calls, chain_call(keys))
    /\ UNCHANGED <<paused, direction, snake, last_tail_pos, board,
                   update_interval, last_score, tick, scores, games, had>>

frame_arrow_keys == frame_key_stage("arrows", "wasd")

frame_wasd_keys == frame_key_stage("wasd", "vim")

frame_vim_keys == frame_key_stage("vim", "tick")

\* diff < update_interval: no tick in this frame
frame_not_due ==
    /\ pc = "tick"
    /\ pc' = "space"
    /\ calls' = <<>>
    /\ UNCHANGED <<state_vars, scores, games, had>>

\* SnakeApp::update_state, called from the tick stage of a frame
frame_update_state ==
    /\ pc = "tick"
    /\ tick <= MaxFrameTick
    /\ pc' = "space"
    /\ tick_step(MaxApples, FALSE)
    /\ calls' = <<>>

NextFrame ==
    \/ key_space
    \/ frame_arrow_keys
    \/ frame_wasd_keys
    \/ frame_vim_keys
    \/ frame_not_due
    \/ frame_update_state

SpecFrame == Init /\ [][NextFrame]_vars

----------------------------------------------------------------------------
(* Vocabulary of the properties, stated apart from the operators above   *)

Reverse(d) ==
    CASE d = "Up" -> "Down" [] d = "Down" -> "Up"
      [] d = "Left" -> "Right" [] d = "Right" -> "Left"

Moved(p, d) ==
    CASE d = "Up"    -> <<p[1], p[2] - 1>>
      [] d = "Right" -> <<p[1] + 1, p[2]>>
      [] d = "Down"  -> <<p[1], p[2] + 1>>
      [] d = "Left"  -> <<p[1] - 1, p[2]>>

\* the direction the next tick uses, and the head it computes
TickDirection == IF next_input = <<>> THEN direction ELSE next_input[1]
TickHead == Moved(snake[1], TickDirection)

OnBoard(p) == p[1] \in 0..39 /\ p[2] \in 0..19

\* the entries of a sequence
Range(s) == {s[i] : i \in 1..Len(s)}

\* the cells of a sequence of positions
CellsOf(s) == {s[i] : i \in 1..Len(s)}

\* the step is a tick that ends in a loss: the engine was running at the
\* tick stage and is paused after it
LosingTick == update_state /\ paused'

\* the engine state after a reset with final score n
ResetWith(n) ==
    /\ snake' = <<<<4, 3>>, <<3, 3>>, <<2, 3>>>>
    /\ direction' = "Right"
    /\ next_input' = <<>>
    /\ board' = {}
    /\ paused' = TRUE
    /\ last_score' = <<n>>

----------------------------------------------------------------------------
(* C1: in every reachable state, across losses and resets, no two        *)
(* positions of the snake are equal.                                     *)
C1_NoDuplicatePositions ==
    \A i, j \in 1..Len(snake) : i # j => snake[i] # snake[j]

\* a second run, after a loss and a reset, in which the snake has grown
C1_Witness ==
    games > 0 /\ tick > FIRST_TICK /\ Len(snake) > START_LENGTH

(* C2: in every reachable state no food cell is a snake cell.            *)
C2_FoodNeverOnSnake ==
    board \cap CellsOf(snake) = {}

\* the snake has eaten an apple and an apple lies next to the snake's head
C2_Witness ==
    /\ Len(snake) > START_LENGTH
    /\ \E p \in board : dist(p, snake[1]) = 1

(* C3: a tick whose new head is outside [0,40)x[0,20) resets the engine  *)
(* state to its initial values with last_score = Some(score), and no head*)
(* is ever inserted outside the board.                                   *)
C3_BoundaryLoss ==
    [][ /\ (update_state /\ ~OnBoard(TickHead))
            => ResetWith(Len(snake) - 3)
        /\ OnBoard(snake'[1]) ]_vars

\* a run has just ended at a wall: the reset state with final score 0 (a
\* self-collision needs a grown snake), before any new tick
C3_Witness ==
    /\ last_score = <<0>>
    /\ paused
    /\ tick = FIRST_TICK
    /\ snake = <<<<4, 3>>, <<3, 3>>, <<2, 3>>>>

\* the snake cells that remain after the tail adjustment of the next tick
Remaining ==
    IF TickHead \in board
    THEN CellsOf(snake)
    ELSE {snake[i] : i \in 1..(Len(snake) - 1)}

(* C4: a tick whose new head is inside the board ends in a loss exactly  *)
(* when the new head is a snake cell that remains after the tail         *)
(* adjustment (every cell, or every cell but the last when no food is    *)
(* eaten); a head moving onto the tail cell vacated in the same tick is  *)
(* not a loss and the move is applied.                                   *)
C4_SelfCollision ==
    [][ (update_state /\ OnBoard(TickHead))
          => /\ paused' <=> (TickHead \in Remaining)
             /\ (TickHead = snake[Len(snake)] /\ TickHead \notin Remaining)
                  => /\ ~paused'
                     /\ snake' = <<TickHead>> \o SubSeq(snake, 1, Len(snake) - 1) ]_vars

\* the head has moved onto the cell the tail left in the same tick
C4_Witness ==
    /\ tick > FIRST_TICK
    /\ snake[1] = last_tail_pos
    /\ ~paused

\* the step is a non-losing tick whose new head is on a food cell
EatingTick == update_state /\ ~paused' /\ TickHead \in board

(* C5: a non-losing tick whose new head is not on food yields the new head *)
(* followed by the old snake without its last element, the new head being*)
(* the old head moved one cell in the committed direction; the length    *)
(* changes in no step but an eating tick or a loss, so with no food eaten*)
(* it stays START_LENGTH and the score 0.                                *)
C5_MoveKeepsLength ==
    [][ /\ (update_state /\ ~paused' /\ TickHead \notin board)
            => /\ snake' = <<TickHead>> \o SubSeq(snake, 1, Len(snake) - 1)
               /\ Len(snake') = Len(snake)
        /\ (~EatingTick /\ ~LosingTick) => Len(snake') = Len(snake)
        /\ (Len(snake) = 3 /\ ~EatingTick) => Len(snake') - 3 = 0 ]_vars

\* the scenario of the claim: one tick to the right from the initial snake
C5_Witness ==
    /\ snake = <<<<5, 3>>, <<4, 3>>, <<3, 3>>>>
    /\ tick = FIRST_TICK + 1

(* C6: a tick whose new head is on a food cell yields the new head       *)
(* followed by the whole old snake: length and score grow by exactly 1,  *)
(* that food cell is cleared and no other food cell is removed.          *)
C6_EatGrows ==
    [][ (update_state /\ OnBoard(TickHead) /\ TickHead \in board)
          => /\ snake' = <<TickHead>> \o snake
             /\ Len(snake') = Len(snake) + 1
             /\ (Len(snake') - 3) = (Len(snake) - 3) + 1
             /\ TickHead \notin board'
             /\ (board \ {TickHead}) \subseteq board' ]_vars

\* the last tick ate an apple (the tail it recorded is still the tail)
\* while a second apple lay on the board: one apple is placed per tick, so
\* two apples after the tick mean one was left by the apple check
C6_Witness ==
    /\ tick > FIRST_TICK
    /\ Len(snake) = START_LENGTH + 1
    /\ snake[Len(snake)] = last_tail_pos
    /\ Cardinality(board) = 2

\* the stages of a frame that read direction keys
KeyStages == {"arrows", "wasd", "vim"}

\* the call a key of direction d makes
Submit(d) ==
    CASE d = "Up" -> up [] d = "Right" -> right
      [] d = "Down" -> down [] d = "Left" -> left

(* C7: while running, a direction input that is not the reverse of the   *)
(* current direction becomes the pending direction, replacing an earlier *)
(* one, and an input that is the reverse changes neither the pending nor *)
(* the current direction; the next tick makes the pending direction the  *)
(* current one and moves the head that way in the same tick.             *)
C7_DirectionInput ==
    [][ /\ pc \in KeyStages
            => /\ ~paused
               /\ direction' = direction
               /\ \A d \in Direction :
                    Submit(d) => IF d = Reverse(direction)
                                 THEN next_input' = next_input
                                 ELSE next_input' = <<d>>
        /\ (pc = "tick" /\ next_input # <<>> /\ tick' # tick /\ ~paused')
             => /\ direction' = next_input[1]
                /\ snake'[1] = Moved(snake[1], next_input[1]) ]_vars

\* Up was submitted while heading Right and the first tick moved the head up
C7_Witness ==
    /\ direction = "Up"
    /\ tick = FIRST_TICK + 1
    /\ snake[1] = <<4, 2>>

(* C8: the direction a tick uses is never the reverse of the direction of*)
(* the previous tick of the run (Right before the first tick): the pending *)
(* direction is never the reverse of the current one, and the new head is*)
(* never the second segment of the snake.                                *)
C8_NoReversal ==
    /\ next_input # <<>> => next_input[1] # Reverse(direction)
    /\ TickDirection # Reverse(direction)
    /\ TickHead # snake[2]

\* after a turn upwards, a further turn to the left is pending
C8_Witness ==
    /\ tick > FIRST_TICK
    /\ direction = "Up"
    /\ next_input = <<"Left">>

(* C9: when a tick ends in a loss, by boundary exit or by self-collision,*)
(* the final score stored in last_score is the score of the run at that  *)
(* loss: the snake length at the start of the losing tick minus          *)
(* START_LENGTH.                                                         *)
C9_FinalScoreIsRunScore ==
    [][ LosingTick => last_score' = <<Len(snake) - 3>> ]_vars

\* at most 10 entries, descending, all positive
C10_Shape ==
    /\ Len(scores) <= 10
    /\ \A i \in 1..(Len(scores) - 1) : scores[i] >= scores[i + 1]
    /\ \A i \in 1..Len(scores) : scores[i] > 0

(* C10: the score history has at most 10 entries, is sorted in descending*)
(* order, and every entry is a positive score the snake had in some state*)
(* of some run: an entry a step adds is a positive score had in the run  *)
(* that step ends, and a loss with score 0 adds nothing.                 *)
C10_ScoreHistory ==
    [][ /\ C10_Shape
        /\ scores' # scores
             => /\ C10_Shape'
                /\ Range(scores') \subseteq (Range(scores) \cup (had \ {0}))
                /\ last_score' # <<0>> ]_vars

\* two losses with score 2 on top of nine saved scores: an entry 1 of the
\* saved scores was dropped by the truncation
C10_Witness ==
    scores = <<3, 2, 2, 2, 2, 1, 1, 1, 1, 1>>

\* the number of entries of s equal to v, and greater than v
Count(s, v) == Cardinality({i \in 1..Len(s) : s[i] = v})
Above(s, v) == Cardinality({i \in 1..Len(s) : s[i] > v})

Min(a, b) == IF a <= b THEN a ELSE b

\* how many entries equal to v the 10 largest entries of s hold
TopTenCount(s, v) ==
    Min(Count(s, v), IF Above(s, v) >= 10 THEN 0 ELSE 10 - Above(s, v))

(* C11: a loss with a positive final score makes the score history the   *)
(* multiset of the 10 largest of its former entries and that score: the  *)
(* inserted score is dropped only when 10 entries greater than or equal  *)
(* to it are kept; every other step, a reset after a loss with score 0   *)
(* included, leaves the history unchanged.                               *)
C11_TopTenMultiset ==
    [][ IF LosingTick /\ last_score'[1] > 0
        THEN LET all == scores \o last_score'
             IN  /\ Len(scores') = Min(Len(all), 10)
                 /\ \A v \in Range(all) :
                      Count(scores', v) = TopTenCount(all, v)
                 /\ Count(scores', last_score'[1]) <= Count(scores, last_score'[1])
                      => /\ Len(scores') = 10
                         /\ \A i \in 1..10 : scores'[i] >= last_score'[1]
        ELSE scores' = scores ]_vars

\* the second loss, with final score 1, met a full history whose entries
\* are all 1 or more: the inserted score was dropped
C11_Witness ==
    /\ games = 2
    /\ last_score = <<1>>
    /\ scores = <<3, 2, 2, 2, 1, 1, 1, 1, 1, 1>>

\* the step is the Space key of a frame taking effect
TogglePause == pc = "space" /\ paused' # paused

(* C12: a pause toggle negates paused and changes no other field of the  *)
(* engine state nor the score history (so a second toggle gives back the *)
(* state before the first), and paused changes in no step but a toggle   *)
(* and a losing tick.                                                    *)
C12_ToggleOnlyFlips ==
    [][ /\ TogglePause
            => /\ paused' = ~paused
               /\ snake' = snake
               /\ board' = board
               /\ direction' = direction
               /\ next_input' = next_input
               /\ update_interval' = update_interval
               /\ tick' = tick
               /\ last_tail_pos' = last_tail_pos
               /\ last_score' = last_score
               /\ scores' = scores
        /\ paused' # paused => (TogglePause \/ LosingTick) ]_vars

\* a run was paused after its first tick with a pending direction and an
\* apple on the board, all of them kept
C12_Witness ==
    /\ paused
    /\ tick > FIRST_TICK
    /\ next_input # <<>>
    /\ board # {}
    /\ update_interval = 200

(* C13: while paused, a frame is at its Space stage only (no key of a    *)
(* direction is read and no tick is applied), and no step changes        *)
(* anything of the engine state or the score history but the paused flag *)
(* itself, which only the Space key changes.                             *)
C13_PausedFrozen ==
    [][ paused
          => /\ pc = "space"
             /\ pc' \in {"space", "arrows"}
             /\ ~paused' => pc' = "arrows"
             /\ direction' = direction
             /\ next_input' = next_input
             /\ snake' = snake
             /\ last_tail_pos' = last_tail_pos
             /\ board' = board
             /\ update_interval' = update_interval
             /\ last_score' = last_score
             /\ tick' = tick
             /\ scores' = scores ]_vars

\* a run in which the snake has turned and grown is paused
C13_Witness ==
    /\ paused
    /\ tick > FIRST_TICK
    /\ Len(snake) > START_LENGTH
    /\ direction # "Right"

(* C14, as stated: after every tick no pending direction is stored.     *)
C14_TickClearsPending ==
    [][ update_state => next_input' = <<>> ]_vars

(* C14, amended: a tick that is not a loss commits the pending direction *)
(* and leaves it stored, so after the tick the pending direction, if     *)
(* any, is the current direction; a losing tick empties it by the reset; *)
(* and it changes in no step but a key stage or a losing tick.           *)
C14_TickKeepsPending ==
    [][ /\ (update_state /\ ~paused')
            => /\ next_input' = next_input
               /\ next_input # <<>> => direction' = next_input[1]
               /\ next_input' \in {<<>>, <<direction'>>}
        /\ LosingTick => next_input' = <<>>
        /\ next_input' # next_input => (pc \in KeyStages \/ LosingTick) ]_vars

\* a tick has committed Up and Up is still stored as pending
C14_Witness ==
    /\ pc = "space"
    /\ ~paused
    /\ tick > FIRST_TICK
    /\ direction = "Up"
    /\ next_input = <<"Up">>

\* the step is a tick that is not a loss
NonLosingTick == pc = "tick" /\ tick' = tick + 1

\* the food cells left by the food check of the next tick
AfterFoodCheck == board \ {TickHead}

(* C15: there are at most 10 food cells in every state; a tick that is   *)
(* not a loss removes no food cell but the one under the new head, adds  *)
(* at most one, adds exactly one when the food check leaves none and a   *)
(* cell free of snake and food exists, and so leaves at least one food   *)
(* cell; no other step but a loss changes the food cells.                *)
C15_FoodCount ==
    [][ /\ Cardinality(board) <= 10
        /\ Cardinality(board') <= 10
        /\ NonLosingTick
            => LET free == \E p \in Cells :
                             p \notin AfterFoodCheck /\ p \notin CellsOf(snake')
               IN  /\ AfterFoodCheck \subseteq board'
                   /\ Cardinality(board' \ AfterFoodCheck) <= 1
                   /\ (AfterFoodCheck = {} /\ free) => Cardinality(board') = 1
                   /\ free => Cardinality(board') >= 1
        /\ board' # board => (NonLosingTick \/ (pc = "tick" /\ paused')) ]_vars

\* ten apples lie on the board and ticks have been applied since the
\* tenth was placed
C15_Witness ==
    /\ Cardinality(board) = 10
    /\ tick > 12
    /\ ~paused

\* the step is a tick that ends in a loss
LossStep == pc = "tick" /\ paused'

(* C16, as stated: every tick sets the interval to 200 ms * 20 / (score  *)
(* + 20), truncated, and from the initial or reset state on no step of a *)
(* run increases the interval, which stays greater than 0.               *)
C16_IntervalNeverIncreases ==
    [][ /\ NonLosingTick
            => update_interval' = (200 * 20) \div ((Len(snake) - 3) + 20)
        /\ ~LossStep => update_interval' <= update_interval
        /\ update_interval' > 0 ]_vars

(* C16, amended: every tick that is not a loss sets the interval to      *)
(* 200 ms * 20 / (score + 20), truncated, with the score at the start of *)
(* the tick; the initial or reset state holds 100 ms, which the first    *)
(* tick of a run raises to 200 ms; from the first tick on no step of the *)
(* run increases the interval; and it is greater than 0 in every state.  *)
C16_IntervalShrinksAfterFirstTick ==
    [][ /\ NonLosingTick
            => update_interval' = (200 * 20) \div ((Len(snake) - 3) + 20)
        /\ tick = FIRST_TICK => update_interval = 100
        /\ (NonLosingTick /\ tick = FIRST_TICK) => update_interval' = 200
        /\ (tick > FIRST_TICK /\ ~LossStep) => update_interval' <= update_interval
        /\ update_interval > 0
        /\ update_interval' > 0 ]_vars

\* a run has reached score 11 or more and the interval has shrunk to the
\* 133 ms of score 10
C16_Witness ==
    /\ ~paused
    /\ Len(snake) >= START_LENGTH + 11
    /\ update_interval = 133

\* the call c of a key group is one the engine accepts: a direction that
\* is not the reverse of the current one
Accepted(c) == c # <<>> /\ c[1] # Reverse(direction)

\* the key groups read so far in the frame: 1 arrows, 2 WASD, 3 vim
GroupsRead == 1..Len(calls)

(* C17, as stated: when keys of several groups are pressed in a frame,   *)
(* the accepted call of the first group in the order arrows, WASD, vim   *)
(* determines the pending direction.                                     *)
C17_FirstGroupWins ==
    \A i \in GroupsRead :
        (Accepted(calls[i]) /\ \A j \in GroupsRead : j < i => ~Accepted(calls[j]))
            => next_input = calls[i]

(* C17, amended: every group's call is made in turn, so the accepted     *)
(* call of the last group in the order arrows, WASD, vim determines the  *)
(* pending direction; all three groups have been read when the frame     *)
(* reaches the tick.                                                     *)
C17_LastGroupWins ==
    /\ \A i \in GroupsRead :
         (Accepted(calls[i]) /\ \A j \in GroupsRead : j > i => ~Accepted(calls[j]))
             => next_input = calls[i]
    /\ pc = "tick" => Len(calls) = 3
    /\ pc \in {"space", "arrows"} => calls = <<>>

\* ArrowUp and j (Down) were pressed in one frame while heading Right:
\* Down is pending
C17_Witness ==
    /\ pc = "tick"
    /\ direction = "Right"
    /\ calls = <<<<"Up">>, <<>>, <<"Down">>>>
    /\ next_input = <<"Down">>

(* C18: the snake has at least START_LENGTH cells in every state and    *)
(* its length decreases in no step but a loss; the score a loss computes *)
(* is the length at the start of the tick minus 3, or one less after the *)
(* tail removal of a self-collision, and is never below 0: the snake a   *)
(* self-collision computes the score of has at least 3 cells, so the     *)
(* subtraction does not wrap.                                            *)
C18_LengthAtLeastStart ==
    [][ /\ Len(snake) >= 3
        /\ Len(snake') >= 3
        /\ ~LossStep => Len(snake') >= Len(snake)
        /\ LossStep
            => /\ last_score' \in {<<Len(snake) - 3>>, <<Len(snake) - 4>>}
               /\ last_score'[1] >= 0
               /\ OnBoard(TickHead) => Len(snake) - 1 >= 3 ]_vars

\* a snake of 5 cells is about to move its head onto a cell of its body
\* that stays after the tail removal
C18_Witness ==
    /\ pc = "tick"
    /\ tick > FIRST_TICK
    /\ Len(snake) = 5
    /\ OnBoard(TickHead)
    /\ TickHead \in Remaining

\* the absolute value of an integer
Abs(n) == IF n >= 0 THEN n ELSE 0 - n

(* C19: in every state every cell of the snake lies inside               *)
(* [0,40)x[0,20), and every two consecutive cells of the snake are at    *)
(* Manhattan distance exactly 1.                                         *)
C19_ConnectedPath ==
    /\ \A i \in 1..Len(snake) :
         /\ snake[i][1] >= 0 /\ snake[i][1] < 40
         /\ snake[i][2] >= 0 /\ snake[i][2] < 20
    /\ \A i \in 1..(Len(snake) - 1) :
         Abs(snake[i][1] - snake[i + 1][1])
           + Abs(snake[i][2] - snake[i + 1][2]) = 1

\* a grown snake that has turned twice: its head, third and fifth cell
\* lie in three different rows or columns
C19_Witness ==
    /\ Len(snake) >= 5
    /\ snake[1][1] # snake[3][1]
    /\ snake[1][2] # snake[3][2]
    /\ snake[3][1] # snake[5][1]
    /\ snake[3][2] # snake[5][2]

\* the number of cells between the head and the wall the next tick moves
\* the head towards
RoomAhead ==
    CASE TickDirection = "Up"    -> snake[1][2]
      [] TickDirection = "Right" -> 39 - snake[1][1]
      [] TickDirection = "Down"  -> 19 - snake[1][2]
      [] TickDirection = "Left"  -> snake[1][1]

(* C20: the head has at most 39 cells between it and the wall ahead; a   *)
(* tick that is not a loss brings it one cell nearer, a tick with no     *)
(* cell left ahead is a loss that resets the engine to the paused        *)
(* initial state, and no step but a tick or an accepted direction input  *)
(* changes the room ahead, so with no input the run is lost after at     *)
(* most 40 ticks; and, ticks being applied when due, every running state *)
(* leads to a paused one.                                                *)
C20_LossWithinFortyTicks ==
    /\ [][ /\ RoomAhead \in 0..39
           /\ NonLosingTick => RoomAhead' = RoomAhead - 1
           /\ (pc = "tick" /\ pc' = "space" /\ tick' # tick /\ RoomAhead = 0)
                => LossStep
           /\ LossStep => ResetWith(last_score'[1])
           /\ (pc # "tick" /\ next_input' = next_input)
                => RoomAhead' = RoomAhead ]_vars
    /\ (~paused) ~> paused

\* a run that went straight for more than 30 ticks has been lost
C20_Witness ==
    /\ games = 1
    /\ paused
    /\ tick = FIRST_TICK
    /\ last_score # <<>>
    /\ last_score[1] >= 30

====
